---------------------------- MODULE Spec2Model ----------------------------
(***************************************************************************)
(* A model of fswatch-sys (src/src/lib.rs, src/src/ffi.rs): the session    *)
(* builder, the session wrapper around a libfswatch handle, and the        *)
(* session iterator with its thread and its channel.  The foreign library  *)
(* is the environment: it owns the set of live handles, chooses the status *)
(* of every call made on a live handle and, while it monitors, the batches *)
(* of events it hands to the callback.                                     *)
(***************************************************************************)
EXTENDS Integers, Sequences, FiniteSets, TLC

(***************************************************************************)
(* Bounds of the model.                                                    *)
(***************************************************************************)
\* Most entries (paths + properties + set options + filters) a builder holds.
MaxBuilderSize == 2
\* Most paths handed to FswSessionBuilder::new.
MaxNewPaths == 1
\* Most explicit destroy_session calls counted on one session.
MaxDestroys == 2
\* Most closures boxed for one session before another set_callback is tried.
MaxCallbacks == 2
\* Most events the library delivers to one iterator's closure.
MaxEvents == 2
\* Most events in one batch handed to the callback.
MaxBatch == 2
\* The status codes classified run from -2 up to MaxStatus, one past the
\* largest code ffi.rs defines.
MaxStatus == 16385

(***************************************************************************)
(* ffi.rs: the status codes and the invalid handle.                        *)
(***************************************************************************)
FSW_INVALID_HANDLE == -1
FSW_OK == 0
FSW_ERR_UNKNOWN_ERROR == 1
FSW_ERR_SESSION_UNKNOWN == 2
FSW_ERR_MONITOR_ALREADY_EXISTS == 4
FSW_ERR_MEMORY == 8
FSW_ERR_UNKNOWN_MONITOR_TYPE == 16
FSW_ERR_CALLBACK_NOT_SET == 32
FSW_ERR_PATHS_NOT_SET == 64
FSW_ERR_MISSING_CONTEXT == 128
FSW_ERR_INVALID_PATH == 256
FSW_ERR_INVALID_CALLBACK == 512
FSW_ERR_INVALID_LATENCY == 1024
FSW_ERR_INVALID_REGEX == 2048
FSW_ERR_MONITOR_ALREADY_RUNNING == 4096
FSW_ERR_UNKNOWN_VALUE == 8192
FSW_ERR_INVALID_PROPERTY == 16384

\* pub type FSW_STATUS = c_int
c_int_MIN == -2147483647 - 1
c_int_MAX == 2147483647

\* The codes ffi.rs defines.
DefinedStatuses ==
  { FSW_OK, FSW_ERR_UNKNOWN_ERROR, FSW_ERR_SESSION_UNKNOWN,
    FSW_ERR_MONITOR_ALREADY_EXISTS, FSW_ERR_MEMORY, FSW_ERR_UNKNOWN_MONITOR_TYPE,
    FSW_ERR_CALLBACK_NOT_SET, FSW_ERR_PATHS_NOT_SET, FSW_ERR_MISSING_CONTEXT,
    FSW_ERR_INVALID_PATH, FSW_ERR_INVALID_CALLBACK, FSW_ERR_INVALID_LATENCY,
    FSW_ERR_INVALID_REGEX, FSW_ERR_MONITOR_ALREADY_RUNNING, FSW_ERR_UNKNOWN_VALUE,
    FSW_ERR_INVALID_PROPERTY }

\* pub enum FswStatus
FswStatusKinds ==
  { "Ok", "UnknownError", "SessionUnknown", "MonitorAlreadyExists", "Memory",
    "UnknownMonitorType", "CallbackNotSet", "PathsNotSet", "MissingContext",
    "InvalidPath", "InvalidCallback", "InvalidLatency", "InvalidRegex",
    "MonitorAlreadyRunning", "UnknownValue", "InvalidProprety" }

\* A conversion whose FSW_ERR_INVALID_PROPERTY arm repeats the arm above it.
FswStatus_from_repeated_arm(status) ==
  CASE status = FSW_OK -> "Ok"
    [] status = FSW_ERR_SESSION_UNKNOWN -> "SessionUnknown"
    [] status = FSW_ERR_MONITOR_ALREADY_EXISTS -> "MonitorAlreadyExists"
    [] status = FSW_ERR_MEMORY -> "Memory"
    [] status = FSW_ERR_UNKNOWN_MONITOR_TYPE -> "UnknownMonitorType"
    [] status = FSW_ERR_CALLBACK_NOT_SET -> "CallbackNotSet"
    [] status = FSW_ERR_PATHS_NOT_SET -> "PathsNotSet"
    [] status = FSW_ERR_MISSING_CONTEXT -> "MissingContext"
    [] status = FSW_ERR_INVALID_PATH -> "InvalidPath"
    [] status = FSW_ERR_INVALID_CALLBACK -> "InvalidCallback"
    [] status = FSW_ERR_INVALID_LATENCY -> "InvalidLatency"
    [] status = FSW_ERR_INVALID_REGEX -> "InvalidRegex"
    [] status = FSW_ERR_MONITOR_ALREADY_RUNNING -> "MonitorAlreadyRunning"
    [] status = FSW_ERR_UNKNOWN_VALUE -> "UnknownValue"
    [] status = FSW_ERR_INVALID_PROPERTY -> "UnknownValue"
    [] OTHER -> "UnknownError"

\* impl From<ffi::FSW_STATUS> for FswStatus
FswStatus_from(status) ==
  CASE status = FSW_OK -> "Ok"
    [] status = FSW_ERR_SESSION_UNKNOWN -> "SessionUnknown"
    [] status = FSW_ERR_MONITOR_ALREADY_EXISTS -> "MonitorAlreadyExists"
    [] status = FSW_ERR_MEMORY -> "Memory"
    [] status = FSW_ERR_UNKNOWN_MONITOR_TYPE -> "UnknownMonitorType"
    [] status = FSW_ERR_CALLBACK_NOT_SET -> "CallbackNotSet"
    [] status = FSW_ERR_PATHS_NOT_SET -> "PathsNotSet"
    [] status = FSW_ERR_MISSING_CONTEXT -> "MissingContext"
    [] status = FSW_ERR_INVALID_PATH -> "InvalidPath"
    [] status = FSW_ERR_INVALID_CALLBACK -> "InvalidCallback"
    [] status = FSW_ERR_INVALID_LATENCY -> "InvalidLatency"
    [] status = FSW_ERR_INVALID_REGEX -> "InvalidRegex"
    [] status = FSW_ERR_MONITOR_ALREADY_RUNNING -> "MonitorAlreadyRunning"
    [] status = FSW_ERR_UNKNOWN_VALUE -> "UnknownValue"
    [] status = FSW_ERR_INVALID_PROPERTY -> "InvalidProprety"
    [] OTHER -> "UnknownError"

(***************************************************************************)
(* FswResult<T>: only the outcome is kept, the value travels beside it.    *)
(***************************************************************************)
OkRes == [tag |-> "Ok", status |-> "Ok"]
FromFsw(kind) == [tag |-> "FromFsw", status |-> kind]
NulError == [tag |-> "NulError", status |-> "Ok"]
MissingRequiredParameters == [tag |-> "MissingRequiredParameters", status |-> "Ok"]
IsOk(res) == res.tag = "Ok"

\* FswSession::map_result
map_result(result) ==
  LET kind == FswStatus_from(result)
  IN  IF kind = "Ok" THEN OkRes ELSE FromFsw(kind)

\* FswSession::map_result with the value it is given: Ok(ret) or the error.
FswSession_map_result(ret, result) ==
  [res |-> map_result(result),
   ret |-> IF IsOk(map_result(result)) THEN <<ret>> ELSE << >>]

(***************************************************************************)
(* Text handed to the foreign library is a sequence of bytes; CString::new *)
(* refuses a text that holds the byte 0.                                   *)
(***************************************************************************)
\* "./", the single byte 0xFF (not UTF-8) and "/\0"
Paths == { <<46, 47>>, <<255>>, <<47, 0>> }
PropNames == { <<110>>, <<109>> }
PropValues == { <<118>>, <<119>> }

\* Path::to_string_lossy().into_owned(), as bytes: an ASCII byte is kept and
\* a byte that is not UTF-8 becomes U+FFFD (EF BF BD).  The paths above hold
\* no multi-byte sequence.
RECURSIVE to_string_lossy(_)
to_string_lossy(path) ==
  IF path = << >> THEN << >>
  ELSE (IF Head(path) < 128 THEN <<Head(path)>> ELSE <<239, 191, 189>>)
       \o to_string_lossy(Tail(path))

\* A conversion that does not look for the byte 0.
CString_new_unchecked(text) == TRUE

\* CString::new(text).is_ok()
CString_new_ok(text) == \A i \in 1..Len(text) : text[i] # 0


(***************************************************************************)
(* The values the builder and the session setters take.                    *)
(***************************************************************************)
MonitorTypes == { "SystemDefault", "Poll" }
EventFlags == { "Created", "Updated" }
\* FswMonitorFilter::new(text, filter_type, case_sensitive, extended)
FswMonitorFilter_new(text, filter_type, case_sensitive, extended) ==
  [text |-> text, filter_type |-> filter_type,
   case_sensitive |-> case_sensitive, extended |-> extended]
\* "f" (include, case sensitive) and ".*" (exclude), as in test.rs run_callback
Filters == { FswMonitorFilter_new(<<102>>, "Include", TRUE, FALSE),
             FswMonitorFilter_new(<<46, 42>>, "Exclude", FALSE, FALSE) }
Latencies == { 1 }

\* Option<T> is a sequence of at most one element.
None == << >>
Some(v) == << v >>
IsSome(o) == o # << >>
Unwrap(o) == o[1]
OptBools == { None, Some(TRUE), Some(FALSE) }
OptLatencies == { None } \cup { Some(l) : l \in Latencies }

\* The sequences over S of length at most n.
SeqsUpTo(S, n) == UNION { [1..k -> S] : k \in 0..n }

(***************************************************************************)
(* The foreign library.  `lib` is the set of handles of its live sessions. *)
(* A call records the function, the handle, the argument, what the library *)
(* returned, and whether the call was made by Drop (implicit).             *)
(***************************************************************************)
\* The handles fsw_init_session hands out.  The caller holds one session at
\* a time and a handle is opaque to it, so one value stands for all.
Handles == { 1 }

Call(fn, h, arg, ret, implicit) ==
  [fn |-> fn, h |-> h, arg |-> arg, ret |-> ret, implicit |-> implicit]

\* The status of a call on `handle`: the library knows only its live
\* sessions (test.rs invalid_handle_add_path / invalid_handle_set_callback);
\* on a live session the status is the library's choice.
fsw_status(handle, choice, lib) ==
  IF handle \in lib THEN choice ELSE FSW_ERR_SESSION_UNKNOWN

\* fsw_destroy_session: a live session is destroyed; any other handle is
\* refused (test.rs create_and_destroy_session).
fsw_destroy_status(handle, lib) ==
  IF handle \in lib THEN FSW_OK ELSE FSW_ERR_SESSION_UNKNOWN

\* Whether a recorded call failed.
CallFailed(c) ==
  IF c.fn = "fsw_init_session" THEN c.ret = FSW_INVALID_HANDLE ELSE c.ret # FSW_OK

(***************************************************************************)
(* FswSession.  Every method returns the session after the call, the       *)
(* FswResult and the foreign calls it made.                                *)
(***************************************************************************)
Outcome(sess, res, calls) == [sess |-> sess, res |-> res, calls |-> calls]

\* struct FswSession { handle, callback_set, path_added }
FswSession(handle, callback_set, path_added) ==
  [handle |-> handle, callback_set |-> callback_set, path_added |-> path_added]

\* new that wraps whatever fsw_init_session returned.
FswSession_new_unchecked(monitor_type, handle) ==
  Outcome(Some(FswSession(handle, FALSE, FALSE)), OkRes,
          <<Call("fsw_init_session", handle, <<monitor_type>>, handle, FALSE)>>)

\* FswSession::new: `handle` is what fsw_init_session returned.
FswSession_new(monitor_type, handle) ==
  LET call == Call("fsw_init_session", handle, <<monitor_type>>, handle, FALSE)
  IN  IF handle = FSW_INVALID_HANDLE
      THEN Outcome(None, FromFsw("UnknownError"), <<call>>)
      ELSE Outcome(Some(FswSession(handle, FALSE, FALSE)), OkRes, <<call>>)

\* add_path that sets path_added whatever the library answered.
FswSession_add_path_always_set(s, path, choice, lib) ==
  IF \E i \in 1..Len(path) : path[i] = 0
  THEN Outcome(s, NulError, << >>)
  ELSE LET result == fsw_status(s.handle, choice, lib)
       IN  Outcome([s EXCEPT !.path_added = TRUE], map_result(result),
                   <<Call("fsw_add_path", s.handle, <<to_string_lossy(path)>>, result,
                          FALSE)>>)

\* add_path whose flag follows the last call: path_added.set(res.is_ok()).
FswSession_add_path_tracks_last(s, path, choice, lib) ==
  LET text == to_string_lossy(path)
  IN  IF ~CString_new_ok(text)
      THEN Outcome(s, NulError, << >>)
      ELSE LET result == fsw_status(s.handle, choice, lib)
               res == map_result(result)
           IN  Outcome([s EXCEPT !.path_added = IsOk(res)], res,
                       <<Call("fsw_add_path", s.handle, <<text>>, result, FALSE)>>)

\* add_path that hands the text to the library without CString::new.
FswSession_add_path_unchecked(s, path, choice, lib) ==
  LET text == to_string_lossy(path)
      result == fsw_status(s.handle, choice, lib)
      res == map_result(result)
  IN  Outcome(IF IsOk(res) THEN [s EXCEPT !.path_added = TRUE] ELSE s,
              res,
              <<Call("fsw_add_path", s.handle, <<text>>, result, FALSE)>>)

\* FswSession::add_path
FswSession_add_path(s, path, choice, lib) ==
  LET text == to_string_lossy(path)
  IN  IF ~CString_new_ok(text)
      THEN Outcome(s, NulError, << >>)
      ELSE LET result == fsw_status(s.handle, choice, lib)
               res == map_result(result)
           IN  Outcome(IF IsOk(res) THEN [s EXCEPT !.path_added = TRUE] ELSE s,
                       res,
                       <<Call("fsw_add_path", s.handle, <<text>>, result, FALSE)>>)

\* FswSession::add_property
FswSession_add_property(s, name, value, choice, lib) ==
  IF ~CString_new_ok(name) \/ ~CString_new_ok(value)
  THEN Outcome(s, NulError, << >>)
  ELSE LET result == fsw_status(s.handle, choice, lib)
       IN  Outcome(s, map_result(result),
                   <<Call("fsw_add_property", s.handle, <<name, value>>, result, FALSE)>>)

\* The pass-through setters: set_allow_overflow, set_latency, set_recursive,
\* set_directory_only, set_follow_symlinks, add_event_type_filter.
FswSession_set(fn, s, value, choice, lib) ==
  LET result == fsw_status(s.handle, choice, lib)
  IN  Outcome(s, map_result(result), <<Call(fn, s.handle, <<value>>, result, FALSE)>>)

\* FswSession::add_filter
FswSession_add_filter(s, filter, choice, lib) ==
  IF ~CString_new_ok(filter.text)
  THEN Outcome(s, NulError, << >>)
  ELSE LET result == fsw_status(s.handle, choice, lib)
       IN  Outcome(s, map_result(result),
                   <<Call("fsw_add_filter", s.handle, <<filter>>, result, FALSE)>>)

\* set_callback that never records the callback.
FswSession_set_callback_forgets_flag(s, choice, lib) ==
  LET result == fsw_status(s.handle, choice, lib)
  IN  Outcome(s, map_result(result),
              <<Call("fsw_set_callback", s.handle, << >>, result, FALSE)>>)

\* FswSession::set_callback
FswSession_set_callback(s, choice, lib) ==
  LET result == fsw_status(s.handle, choice, lib)
      res == map_result(result)
  IN  Outcome(IF IsOk(res) THEN [s EXCEPT !.callback_set = TRUE] ELSE s,
              res,
              <<Call("fsw_set_callback", s.handle, << >>, result, FALSE)>>)

\* FswSession::_start_monitor
FswSession__start_monitor(s, choice, lib) ==
  LET result == fsw_status(s.handle, choice, lib)
  IN  Outcome(s, map_result(result),
              <<Call("fsw_start_monitor", s.handle, << >>, result, FALSE)>>)

\* start_monitor that refuses only when both the callback and the path miss.
FswSession_start_monitor_and(s, choice, lib) ==
  IF ~s.callback_set /\ ~s.path_added
  THEN Outcome(s, MissingRequiredParameters, << >>)
  ELSE FswSession__start_monitor(s, choice, lib)

\* start_monitor that asks for the callback alone.
FswSession_start_monitor_callback_only(s, choice, lib) ==
  IF ~s.callback_set
  THEN Outcome(s, MissingRequiredParameters, << >>)
  ELSE FswSession__start_monitor(s, choice, lib)

\* FswSession::start_monitor
FswSession_start_monitor(s, choice, lib) ==
  IF ~s.callback_set \/ ~s.path_added
  THEN Outcome(s, MissingRequiredParameters, << >>)
  ELSE FswSession__start_monitor(s, choice, lib)

\* FswSession::destroy_session
FswSession_destroy_session(s, lib) ==
  LET result == fsw_destroy_status(s.handle, lib)
  IN  Outcome(s, map_result(result),
              <<Call("fsw_destroy_session", s.handle, << >>, result, FALSE)>>)

\* A Drop that does not destroy the session.
FswSession_drop_forgets(s, lib) == << >>

\* impl Drop for FswSession: the calls of destroy_session, its result ignored.
FswSession_drop(s, lib) ==
  LET out == FswSession_destroy_session(s, lib)
  IN  [ i \in 1..Len(out.calls) |-> [out.calls[i] EXCEPT !.implicit = TRUE] ]

(***************************************************************************)
(* The library's live sessions after a sequence of calls: fsw_init_session *)
(* adds the handle it returns, fsw_destroy_session removes its handle.     *)
(***************************************************************************)
RECURSIVE LibAfter(_, _)
LibAfter(lib, calls) ==
  IF calls = << >> THEN lib
  ELSE LET c == Head(calls)
           next == CASE c.fn = "fsw_init_session" /\ c.ret # FSW_INVALID_HANDLE
                          -> lib \cup {c.ret}
                     [] c.fn = "fsw_destroy_session" -> lib \ {c.h}
                     [] OTHER -> lib
       IN  LibAfter(next, Tail(calls))

(***************************************************************************)
(* The closures of set_callback.  Each call boxes its closure and hands    *)
(* the raw pointer to fsw_set_callback (Box::into_raw); no code path       *)
(* takes the box back.  The library keeps the pointer of the last          *)
(* successful call as the session's context until the session is           *)
(* destroyed.  acc is [context, closures, replaced]; who made the closure  *)
(* is "user" (set_callback) or "iter" (adapt_session).                     *)
(***************************************************************************)
Closures(context, closures, replaced) ==
  [context |-> context, closures |-> closures, replaced |-> replaced]

RECURSIVE CallbackAfter(_, _, _)
CallbackAfter(acc, calls, who) ==
  IF calls = << >> THEN acc
  ELSE LET c == Head(calls)
           next ==
             CASE c.fn = "fsw_set_callback" /\ c.ret = FSW_OK ->
                    Closures(who, acc.closures + 1,
                             acc.replaced + (IF acc.context # "none" THEN 1 ELSE 0))
               [] c.fn = "fsw_set_callback" /\ c.ret # FSW_OK ->
                    Closures(acc.context, acc.closures + 1, acc.replaced)
               [] c.fn = "fsw_destroy_session" /\ c.ret = FSW_OK ->
                    Closures("none", acc.closures, acc.replaced)
               [] OTHER -> acc
       IN  CallbackAfter(next, Tail(calls), who)

(***************************************************************************)
(* FswSessionBuilder.                                                      *)
(***************************************************************************)
\* FswSessionBuilder::create
FswSessionBuilder_create(paths) ==
  [paths |-> IF IsSome(paths) THEN Unwrap(paths) ELSE << >>,
   monitor_type |-> "SystemDefault",
   properties |-> << >>,
   overflow |-> None,
   latency |-> None,
   recursive |-> None,
   directory_only |-> None,
   follow_symlinks |-> None,
   event_type_filters |-> << >>,
   filters |-> << >>]

\* FswSessionBuilder::empty
FswSessionBuilder_empty == FswSessionBuilder_create(None)

\* FswSessionBuilder::new
FswSessionBuilder_new(paths) == FswSessionBuilder_create(Some(paths))

\* HashMap::insert on the builder's properties: the last value of a name wins.
HashMap_insert(map, name, value) ==
  [ k \in (DOMAIN map) \cup {name} |-> IF k = name THEN value ELSE map[k] ]

\* The orders in which a HashMap may be iterated: every sequence that holds
\* each key once.
IterationOrders(map) ==
  { o \in [1..Cardinality(DOMAIN map) -> DOMAIN map] :
      \A i, j \in DOMAIN o : i # j => o[i] # o[j] }

\* The fluent setters: each returns the builder with its own field changed.
FswSessionBuilder_add_path(b, path) == [b EXCEPT !.paths = Append(@, path)]
FswSessionBuilder_monitor(b, monitor) == [b EXCEPT !.monitor_type = monitor]
FswSessionBuilder_property(b, name, value) ==
  [b EXCEPT !.properties = HashMap_insert(@, name, value)]
FswSessionBuilder_overflow(b, overflow) == [b EXCEPT !.overflow = overflow]
FswSessionBuilder_latency(b, latency) == [b EXCEPT !.latency = latency]
FswSessionBuilder_recursive(b, recursive) == [b EXCEPT !.recursive = recursive]
FswSessionBuilder_directory_only(b, directory_only) ==
  [b EXCEPT !.directory_only = directory_only]
FswSessionBuilder_follow_symlinks(b, follow_symlinks) ==
  [b EXCEPT !.follow_symlinks = follow_symlinks]
FswSessionBuilder_add_event_filter(b, filter_type) ==
  [b EXCEPT !.event_type_filters = Append(@, filter_type)]
FswSessionBuilder_add_filter(b, filter) == [b EXCEPT !.filters = Append(@, filter)]

\* The number of entries a builder holds (what MaxBuilderSize bounds).
BuilderSize(b) ==
  Len(b.paths) + Cardinality(DOMAIN b.properties)
  + Len(b.overflow) + Len(b.latency) + Len(b.recursive)
  + Len(b.directory_only) + Len(b.follow_symlinks)
  + Len(b.event_type_filters) + Len(b.filters)

(***************************************************************************)
(* FswSessionBuilder::build.  The library's choices during one build are   *)
(* env: the handle fsw_init_session returns, the order in which the        *)
(* property map is iterated, and which of the later calls (failAt, 0 for   *)
(* none) the library fails, with which status.                             *)
(***************************************************************************)
Step(op, a) == [op |-> op, a |-> a]
OptStep(op, o) == IF IsSome(o) THEN <<Step(op, <<Unwrap(o)>>)>> ELSE << >>

\* build with the path filters applied before the event filters.
BuildSteps_filters_first(b, order) ==
  [ i \in 1..Len(b.paths) |-> Step("add_path", <<b.paths[i]>>) ]
  \o [ i \in 1..Len(order) |-> Step("add_property", <<order[i], b.properties[order[i]]>>) ]
  \o OptStep("set_allow_overflow", b.overflow)
  \o OptStep("set_latency", b.latency)
  \o OptStep("set_recursive", b.recursive)
  \o OptStep("set_directory_only", b.directory_only)
  \o OptStep("set_follow_symlinks", b.follow_symlinks)
  \o [ i \in 1..Len(b.filters) |-> Step("add_filter", <<b.filters[i]>>) ]
  \o [ i \in 1..Len(b.event_type_filters) |->
         Step("add_event_type_filter", <<b.event_type_filters[i]>>) ]

\* The session calls of build after FswSession::new, in the order of its body.
BuildSteps(b, order) ==
  [ i \in 1..Len(b.paths) |-> Step("add_path", <<b.paths[i]>>) ]
  \o [ i \in 1..Len(order) |-> Step("add_property", <<order[i], b.properties[order[i]]>>) ]
  \o OptStep("set_allow_overflow", b.overflow)
  \o OptStep("set_latency", b.latency)
  \o OptStep("set_recursive", b.recursive)
  \o OptStep("set_directory_only", b.directory_only)
  \o OptStep("set_follow_symlinks", b.follow_symlinks)
  \o [ i \in 1..Len(b.event_type_filters) |->
         Step("add_event_type_filter", <<b.event_type_filters[i]>>) ]
  \o [ i \in 1..Len(b.filters) |-> Step("add_filter", <<b.filters[i]>>) ]

\* The foreign function behind each pass-through setter.
ForeignName(op) ==
  CASE op = "set_allow_overflow" -> "fsw_set_allow_overflow"
    [] op = "set_latency" -> "fsw_set_latency"
    [] op = "set_recursive" -> "fsw_set_recursive"
    [] op = "set_directory_only" -> "fsw_set_directory_only"
    [] op = "set_follow_symlinks" -> "fsw_set_follow_symlinks"
    [] op = "add_event_type_filter" -> "fsw_add_event_type_filter"

\* One session call of build.
ApplyStep(s, step, choice, lib) ==
  CASE step.op = "add_path" -> FswSession_add_path(s, step.a[1], choice, lib)
    [] step.op = "add_property" ->
         FswSession_add_property(s, step.a[1], step.a[2], choice, lib)
    [] step.op = "add_filter" -> FswSession_add_filter(s, step.a[1], choice, lib)
    [] OTHER -> FswSession_set(ForeignName(step.op), s, step.a[1], choice, lib)

\* The status the library chooses for the n-th call after fsw_init_session.
StatusAt(env, n) == IF n = env.failAt THEN env.err ELSE FSW_OK

\* The steps run to the end, the first error kept for the return.
RECURSIVE RunSteps_no_short_circuit(_, _, _, _, _)
RunSteps_no_short_circuit(s, steps, n, env, lib) ==
  IF steps = << >> THEN Outcome(s, OkRes, << >>)
  ELSE LET r == ApplyStep(s, Head(steps), StatusAt(env, n + 1), lib)
           rest == RunSteps_no_short_circuit(r.sess, Tail(steps), n + Len(r.calls), env, lib)
       IN  Outcome(rest.sess, IF IsOk(r.res) THEN rest.res ELSE r.res,
                   r.calls \o rest.calls)

\* `session.step()?; ...`: the steps in order, returning at the first error.
\* n is the number of foreign calls made so far after fsw_init_session.
RECURSIVE RunSteps(_, _, _, _, _)
RunSteps(s, steps, n, env, lib) ==
  IF steps = << >> THEN Outcome(s, OkRes, << >>)
  ELSE LET r == ApplyStep(s, Head(steps), StatusAt(env, n + 1), lib)
       IN  IF ~IsOk(r.res) THEN r
           ELSE LET rest == RunSteps(r.sess, Tail(steps), n + Len(r.calls), env, lib)
                IN  Outcome(rest.sess, rest.res, r.calls \o rest.calls)

\* FswSessionBuilder::build: the session is moved to the caller on success
\* and dropped on the error path.
FswSessionBuilder_build(b, env, lib) ==
  LET new == FswSession_new(b.monitor_type, env.handle)
  IN  IF ~IsOk(new.res) THEN new
      ELSE LET lib1 == LibAfter(lib, new.calls)
               run == RunSteps(Unwrap(new.sess), BuildSteps(b, env.order), 0, env, lib1)
           IN  IF IsOk(run.res)
               THEN Outcome(Some(run.sess), OkRes, new.calls \o run.calls)
               ELSE Outcome(None, run.res,
                            new.calls \o run.calls \o FswSession_drop(run.sess, lib1))

\* build_callback after `self.build()?` returned built: `set_callback(..)?`
\* on the session, which is dropped on the error path.
FswSessionBuilder_build_callback_set(built, env, lib) ==
  IF ~IsOk(built.res) THEN built
  ELSE LET lib1 == LibAfter(lib, built.calls)
           set == FswSession_set_callback(Unwrap(built.sess),
                                          StatusAt(env, Len(built.calls)), lib1)
       IN  IF IsOk(set.res)
           THEN Outcome(Some(set.sess), OkRes, built.calls \o set.calls)
           ELSE Outcome(None, set.res,
                        built.calls \o set.calls \o FswSession_drop(set.sess, lib1))

\* FswSessionBuilder::build_callback
FswSessionBuilder_build_callback(b, env, lib) ==
  FswSessionBuilder_build_callback_set(FswSessionBuilder_build(b, env, lib), env, lib)

\* What the library may choose during the build of b.
ForeignFailures == { FSW_ERR_MEMORY, FSW_ERR_INVALID_PATH }
BuildEnvs(b, lib) ==
  LET Env(h, o, k, e) == [handle |-> h, order |-> o, failAt |-> k, err |-> e]
      orders == IterationOrders(b.properties)
  IN  \* fsw_init_session fails
      { Env(FSW_INVALID_HANDLE, o, 0, FSW_OK) : o \in { CHOOSE x \in orders : TRUE } }
      \* every call succeeds
      \cup { Env(h, o, 0, FSW_OK) : h \in Handles \ lib, o \in orders }
      \* the k-th call after fsw_init_session fails with e
      \cup { Env(h, o, k, e) : h \in Handles \ lib, o \in orders,
                               k \in 1..(BuilderSize(b) + 1), e \in ForeignFailures }

(***************************************************************************)
(* FswSessionIterator.  The struct holds the session and `started`; its rx *)
(* is the receiving end of the channel, which is part of the state.        *)
(***************************************************************************)
\* create that marks the iterator as started.
FswSessionIterator_create_started(s) == [session |-> Some(s), started |-> TRUE]

\* FswSessionIterator::create
FswSessionIterator_create(s) == [session |-> Some(s), started |-> FALSE]

\* What start and next hand back: the iterator, and the session moved into
\* the thread they spawned (None when no thread was spawned).
Started(it, spawn) == [iter |-> it, spawn |-> spawn]

\* start that takes the session and does not record that it started.
FswSessionIterator_start_forgets(it) ==
  IF IsSome(it.session)
  THEN Started([session |-> None, started |-> it.started], it.session)
  ELSE Started(it, None)

\* FswSessionIterator::start: self.session.take(), started = true, spawn.
FswSessionIterator_start(it) ==
  IF IsSome(it.session)
  THEN Started([session |-> None, started |-> TRUE], it.session)
  ELSE Started(it, None)

\* Iterator::next up to rx.recv(): `if !self.started { self.start(); }`
FswSessionIterator_next(it) ==
  IF ~it.started THEN FswSessionIterator_start(it) ELSE Started(it, None)

\* The events the library hands to the callback: a Created event for the
\* file "f" and an Updated event for a path that is not UTF-8.
CEvents == { [path |-> <<102>>, evt_time |-> 0, flags |-> <<"Created">>],
             [path |-> <<255>>, evt_time |-> 0, flags |-> <<"Updated">>] }

\* FswSession::callback_wrapper: each fsw_cevent of the batch copied into an
\* FswEvent, in the order of the buffer.
callback_wrapper(events) ==
  [ i \in 1..Len(events) |->
      [path |-> to_string_lossy(events[i].path),
       evt_time |-> events[i].evt_time,
       flags |-> events[i].flags] ]

\* A send that puts the event in front of the waiting ones.
Sender_send_front(ch, event) == <<event>> \o ch

\* A send into a channel that holds one event at most: others are lost.
Sender_send_bounded(ch, event) == IF ch = << >> THEN <<event>> ELSE ch

\* tx.send(event) with the receiver alive: the channel is unbounded.
Sender_send(ch, event) == Append(ch, event)

\* The Senders of the channel that are alive.  channel() makes one; it is
\* moved into the closure, and the boxed closure is never freed.
LiveSenders == 1

\* rx.recv(): the oldest event; Err when the channel is empty and has no
\* Sender; otherwise the caller stays blocked.
Receiver_recv(ch) ==
  IF ch # << >> THEN [tag |-> "Ok", item |-> Some(Head(ch))]
  ELSE IF LiveSenders = 0 THEN [tag |-> "Err", item |-> None]
  ELSE [tag |-> "Blocked", item |-> None]

\* What a step that is not a FswResult leaves in op.res.
Blocked == [tag |-> "Blocked", status |-> "Ok"]
Panic == [tag |-> "Panic", status |-> "Ok"]
Item == [tag |-> "Some", status |-> "Ok"]
NoItem == [tag |-> "None", status |-> "Ok"]

\* Result::unwrap panics on an error.
unwrap_panics(res) == ~IsOk(res)

\* FswSessionIterator::adapt_session
FswSessionIterator_adapt_session(s, choice, lib) == FswSession_set_callback(s, choice, lib)

IterOutcome(it, res, calls) == [iter |-> it, res |-> res, calls |-> calls]

\* FswSessionIterator::new: on error the session it was given is dropped.
FswSessionIterator_new(s, choice, lib) ==
  LET adapt == FswSessionIterator_adapt_session(s, choice, lib)
  IN  IF IsOk(adapt.res)
      THEN IterOutcome(Some(FswSessionIterator_create(adapt.sess)), OkRes, adapt.calls)
      ELSE IterOutcome(None, adapt.res, adapt.calls \o FswSession_drop(adapt.sess, lib))

\* FswSessionIterator::assume_new (IntoIterator::into_iter): `let _ = ...`.
FswSessionIterator_assume_new(s, choice, lib) ==
  LET adapt == FswSessionIterator_adapt_session(s, choice, lib)
  IN  IterOutcome(Some(FswSessionIterator_create(adapt.sess)), OkRes, adapt.calls)

(***************************************************************************)
(* The state.                                                              *)
(***************************************************************************)
VARIABLES
  builder,    \* Option<FswSessionBuilder>: the builder the caller holds
  session,    \* Option<FswSession>: the session the caller holds
  iter,       \* Option<FswSessionIterator>: the iterator the caller holds
  lib,        \* the foreign library's live handles
  op,         \* the last operation: its name and its result
  arg,        \* the last operation's arguments
  calls,      \* the foreign calls the last operation made, in order
  life,       \* the latest session: "none", "live" or "dropped"
  origin,     \* how the latest session was made
  handle,     \* Option: the handle of the latest session
  destroys,   \* fsw_destroy_session calls made so far on that handle
  context,    \* the closure the library holds for the latest session:
              \* "none", "user" (set_callback) or "iter" (adapt_session)
  closures,   \* closures boxed by set_callback for the latest session
  replaced,   \* successful set_callback calls that replaced a closure
  thread,     \* the iterator's thread: "none", "spawned", "monitoring",
              \* "ended", "panicked", or "aborted" (the process died)
  tsession,   \* Option<FswSession>: the session the thread owns
  pc,         \* the consumer: "idle", or "recv" (inside next, in rx.recv())
  chan,       \* the events in the channel, oldest first
  cb,         \* the events the running closure has still to send
  delivered,  \* the events the library passed to the iterator's closure
  yielded,    \* the events next returned
  threads,    \* threads the latest iterator spawned
  starts      \* fsw_start_monitor calls made for the latest iterator

\* The accounting of the boxed closures.
cvars == <<context, closures, replaced>>
\* The running iterator: its thread, its channel, its consumer.
ivars == <<thread, tsession, pc, chan, cb, delivered, yielded, threads, starts>>

vars == <<builder, session, iter, lib, op, arg, calls, life, origin, handle, destroys,
          context, closures, replaced,
          thread, tsession, pc, chan, cb, delivered, yielded, threads, starts>>

Op(name, res) == [name |-> name, res |-> res]

\* The statuses the library may choose for a call on a live session.
Choices == {FSW_OK} \cup ForeignFailures

\* The number of fsw_destroy_session calls among cs.
Destroys(cs) == Cardinality({ i \in 1..Len(cs) : cs[i].fn = "fsw_destroy_session" })

Init ==
  /\ builder = None
  /\ session = None
  /\ iter = None
  /\ lib = {}
  /\ op = Op("init", OkRes)
  /\ arg = << >>
  /\ calls = << >>
  /\ life = "none"
  /\ origin = "none"
  /\ handle = None
  /\ destroys = 0
  /\ context = "none"
  /\ closures = 0
  /\ replaced = 0
  /\ thread = "none"
  /\ tsession = None
  /\ pc = "idle"
  /\ chan = << >>
  /\ cb = << >>
  /\ delivered = << >>
  /\ yielded = << >>
  /\ threads = 0
  /\ starts = 0

\* The caller holds nothing, and the process lives: a new builder or session
\* may be made.
Idle == builder = None /\ session = None /\ iter = None /\ thread # "aborted"

(***************************************************************************)
(* The builder's constructors and setters.                                 *)
(***************************************************************************)
\* A builder operation that opens the session as soon as it is called.
BuilderOp_eager(b) ==
  /\ BuilderSize(b) <= MaxBuilderSize
  /\ builder' = Some(b)
  /\ op' = Op("FswSessionBuilder", OkRes)
  /\ arg' = << >>
  /\ calls' = FswSession_new(b.monitor_type, 1).calls
  /\ lib' = LibAfter(lib, calls')
  /\ UNCHANGED <<session, iter, life, origin, handle, destroys>>
  /\ UNCHANGED <<cvars, ivars>>

\* A builder operation: the builder changes, nothing else does.  What is
\* recorded about the latest session is forgotten when a builder is begun.
BuilderOp(b) ==
  /\ BuilderSize(b) <= MaxBuilderSize
  /\ builder' = Some(b)
  /\ op' = Op("FswSessionBuilder", OkRes)
  /\ arg' = << >>
  /\ calls' = << >>
  /\ lib' = lib
  /\ life' = IF IsSome(builder) THEN life ELSE "none"
  /\ origin' = IF IsSome(builder) THEN origin ELSE "none"
  /\ handle' = IF IsSome(builder) THEN handle ELSE None
  /\ destroys' = IF IsSome(builder) THEN destroys ELSE 0
  /\ closures' = IF IsSome(builder) THEN closures ELSE 0
  /\ replaced' = IF IsSome(builder) THEN replaced ELSE 0
  /\ UNCHANGED <<session, iter, context, ivars>>

BuilderEmpty ==
  /\ Idle
  /\ BuilderOp( FswSessionBuilder_empty)

BuilderNew ==
  /\ Idle
  /\ \E paths \in SeqsUpTo(Paths, MaxNewPaths) :
       BuilderOp( FswSessionBuilder_new(paths))

BuilderAddPath ==
  /\ IsSome(builder)
  /\ \E path \in Paths :
       BuilderOp( FswSessionBuilder_add_path(Unwrap(builder), path))

BuilderMonitor ==
  /\ IsSome(builder)
  /\ \E m \in MonitorTypes :
       BuilderOp( FswSessionBuilder_monitor(Unwrap(builder), m))

BuilderProperty ==
  /\ IsSome(builder)
  /\ \E n \in PropNames, v \in PropValues :
       BuilderOp( FswSessionBuilder_property(Unwrap(builder), n, v))

BuilderOverflow ==
  /\ IsSome(builder)
  /\ \E o \in OptBools :
       BuilderOp( FswSessionBuilder_overflow(Unwrap(builder), o))

BuilderLatency ==
  /\ IsSome(builder)
  /\ \E o \in OptLatencies :
       BuilderOp( FswSessionBuilder_latency(Unwrap(builder), o))

BuilderRecursive ==
  /\ IsSome(builder)
  /\ \E o \in OptBools :
       BuilderOp( FswSessionBuilder_recursive(Unwrap(builder), o))

BuilderDirectoryOnly ==
  /\ IsSome(builder)
  /\ \E o \in OptBools :
       BuilderOp(
                 FswSessionBuilder_directory_only(Unwrap(builder), o))

BuilderFollowSymlinks ==
  /\ IsSome(builder)
  /\ \E o \in OptBools :
       BuilderOp(
                 FswSessionBuilder_follow_symlinks(Unwrap(builder), o))

BuilderAddEventFilter ==
  /\ IsSome(builder)
  /\ \E f \in EventFlags :
       BuilderOp(
                 FswSessionBuilder_add_event_filter(Unwrap(builder), f))

BuilderAddFilter ==
  /\ IsSome(builder)
  /\ \E f \in Filters :
       BuilderOp( FswSessionBuilder_add_filter(Unwrap(builder), f))

(***************************************************************************)
(* Making a session: FswSession::new, build, build_callback.               *)
(***************************************************************************)
\* What is recorded about the iterator is about the latest session: it
\* starts anew when a session is made.
NewLife(made) ==
  /\ thread' = IF made THEN "none" ELSE thread
  /\ tsession' = IF made THEN None ELSE tsession
  /\ pc' = IF made THEN "idle" ELSE pc
  /\ chan' = IF made THEN << >> ELSE chan
  /\ cb' = IF made THEN << >> ELSE cb
  /\ delivered' = IF made THEN << >> ELSE delivered
  /\ yielded' = IF made THEN << >> ELSE yielded
  /\ threads' = IF made THEN 0 ELSE threads
  /\ starts' = IF made THEN 0 ELSE starts

\* A session is made (or fails to be made) by an operation whose outcome is
\* out: the builder, if any, is consumed.
Made(name, a, out, how) ==
  /\ builder' = None
  /\ session' = out.sess
  /\ op' = Op(name, out.res)
  /\ arg' = a
  /\ calls' = out.calls
  /\ lib' = LibAfter(lib, out.calls)
  /\ life' = IF IsSome(out.sess) THEN "live"
             ELSE IF Len(out.calls) > 1 THEN "dropped" ELSE "none"
  /\ origin' = IF IsSome(out.sess) THEN how ELSE "none"
  /\ handle' = IF out.calls[1].ret # FSW_INVALID_HANDLE THEN Some(out.calls[1].ret) ELSE None
  /\ destroys' = Destroys(out.calls)
  /\ LET acc == CallbackAfter(Closures("none", 0, 0), out.calls, "user")
     IN  /\ context' = acc.context
         /\ closures' = acc.closures
         /\ replaced' = acc.replaced
  /\ UNCHANGED iter
  /\ NewLife(IsSome(out.sess))

SessionNew ==
  /\ Idle
  /\ \E m \in MonitorTypes, h \in (Handles \ lib) \cup {FSW_INVALID_HANDLE} :
       Made("FswSession::new", <<m>>, FswSession_new(m, h), "new")

Build ==
  /\ IsSome(builder)
  /\ \E env \in BuildEnvs(Unwrap(builder), lib) :
       Made("build", <<Unwrap(builder)>>,
            FswSessionBuilder_build(Unwrap(builder), env, lib), "build")

BuildCallback ==
  /\ IsSome(builder)
  /\ \E env \in BuildEnvs(Unwrap(builder), lib) :
       Made("build_callback", <<Unwrap(builder)>>,
            FswSessionBuilder_build_callback(Unwrap(builder), env, lib),
              IF Len(Unwrap(builder).paths) > 0 THEN "build_callback_paths"
              ELSE "build_callback")

(***************************************************************************)
(* The methods of a session the caller holds.                              *)
(***************************************************************************)
\* A method of the held session with outcome out.
SessionOp(name, a, out) ==
  /\ session' = Some(out.sess)
  /\ op' = Op(name, out.res)
  /\ arg' = a
  /\ calls' = out.calls
  /\ lib' = LibAfter(lib, out.calls)
  /\ destroys' = destroys + Destroys(out.calls)
  /\ LET acc == CallbackAfter(Closures(context, closures, replaced), out.calls, "user")
     IN  /\ context' = acc.context
         /\ closures' = acc.closures
         /\ replaced' = acc.replaced
  /\ UNCHANGED <<builder, iter, life, origin, handle>>
  /\ UNCHANGED ivars

AddPath ==
  /\ IsSome(session)
  /\ \E path \in Paths, st \in Choices :
       SessionOp("add_path", <<path>>, FswSession_add_path(Unwrap(session), path, st, lib))

AddProperty ==
  /\ IsSome(session)
  /\ \E n \in PropNames, v \in PropValues, st \in Choices :
       SessionOp("add_property", <<n, v>>,
                 FswSession_add_property(Unwrap(session), n, v, st, lib))

SetAllowOverflow ==
  /\ IsSome(session)
  /\ \E v \in BOOLEAN, st \in Choices :
       SessionOp("set_allow_overflow", <<v>>,
                 FswSession_set("fsw_set_allow_overflow", Unwrap(session), v, st, lib))

SetLatency ==
  /\ IsSome(session)
  /\ \E v \in Latencies, st \in Choices :
       SessionOp("set_latency", <<v>>,
                 FswSession_set("fsw_set_latency", Unwrap(session), v, st, lib))

SetRecursive ==
  /\ IsSome(session)
  /\ \E v \in BOOLEAN, st \in Choices :
       SessionOp("set_recursive", <<v>>,
                 FswSession_set("fsw_set_recursive", Unwrap(session), v, st, lib))

SetDirectoryOnly ==
  /\ IsSome(session)
  /\ \E v \in BOOLEAN, st \in Choices :
       SessionOp("set_directory_only", <<v>>,
                 FswSession_set("fsw_set_directory_only", Unwrap(session), v, st, lib))

SetFollowSymlinks ==
  /\ IsSome(session)
  /\ \E v \in BOOLEAN, st \in Choices :
       SessionOp("set_follow_symlinks", <<v>>,
                 FswSession_set("fsw_set_follow_symlinks", Unwrap(session), v, st, lib))

AddEventTypeFilter ==
  /\ IsSome(session)
  /\ \E f \in EventFlags, st \in Choices :
       SessionOp("add_event_type_filter", <<f>>,
                 FswSession_set("fsw_add_event_type_filter", Unwrap(session), f, st, lib))

AddFilter ==
  /\ IsSome(session)
  /\ \E f \in Filters, st \in Choices :
       SessionOp("add_filter", <<f>>, FswSession_add_filter(Unwrap(session), f, st, lib))

SetCallback ==
  /\ IsSome(session)
  /\ closures < MaxCallbacks
  /\ \E st \in Choices :
       SessionOp("set_callback", << >>, FswSession_set_callback(Unwrap(session), st, lib))

\* start_monitor on the caller's thread: it returns when the library's
\* blocking call does, with the status the library chose.
StartMonitor ==
  /\ IsSome(session)
  /\ \E st \in Choices :
       SessionOp("start_monitor", << >>, FswSession_start_monitor(Unwrap(session), st, lib))

DestroySession ==
  /\ IsSome(session)
  /\ destroys < MaxDestroys
  /\ SessionOp("destroy_session", << >>, FswSession_destroy_session(Unwrap(session), lib))

\* The held session goes out of scope.
DropSession ==
  /\ IsSome(session)
  /\ LET cs == FswSession_drop(Unwrap(session), lib)
     IN  /\ session' = None
         /\ op' = Op("drop", OkRes)
         /\ arg' = << >>
         /\ calls' = cs
         /\ lib' = LibAfter(lib, cs)
         /\ life' = "dropped"
         /\ destroys' = destroys + Destroys(cs)
         /\ context' = CallbackAfter(Closures(context, closures, replaced), cs, "user").context
         /\ UNCHANGED <<builder, iter, origin, handle, closures, replaced>>
         /\ UNCHANGED ivars

\* test.rs create_and_destroy_session: after the session went out of scope,
\* ffi::fsw_destroy_session is called on the handle it held.
FfiDestroySession ==
  /\ Idle
  /\ life = "dropped"
  /\ op.name # "ffi::fsw_destroy_session"
  /\ LET h == Unwrap(handle)
         result == fsw_destroy_status(h, lib)
         cs == <<Call("fsw_destroy_session", h, << >>, result, FALSE)>>
     IN  /\ op' = Op("ffi::fsw_destroy_session", map_result(result))
         /\ arg' = <<h>>
         /\ calls' = cs
         /\ lib' = LibAfter(lib, cs)
         /\ UNCHANGED <<builder, session, iter, life, origin, handle, destroys>>
         /\ UNCHANGED <<cvars, ivars>>

(***************************************************************************)
(* The iterator's construction, and its drop before the first next.        *)
(***************************************************************************)
\* The held session is moved into an iterator constructor with outcome out.
IterMade(name, out) ==
  /\ session' = None
  /\ iter' = out.iter
  /\ op' = Op(name, out.res)
  /\ arg' = << >>
  /\ calls' = out.calls
  /\ lib' = LibAfter(lib, out.calls)
  /\ life' = IF IsSome(out.iter) THEN life ELSE "dropped"
  /\ destroys' = destroys + Destroys(out.calls)
  /\ LET acc == CallbackAfter(Closures(context, closures, replaced), out.calls, "iter")
     IN  /\ context' = acc.context
         /\ closures' = acc.closures
         /\ replaced' = acc.replaced
  /\ UNCHANGED <<builder, origin, handle>>
  /\ UNCHANGED ivars

IterNew ==
  /\ IsSome(session)
  /\ \E st \in Choices :
       IterMade("FswSessionIterator::new",
                FswSessionIterator_new(Unwrap(session), st, lib))

IntoIter ==
  /\ IsSome(session)
  /\ \E st \in Choices :
       IterMade("into_iter", FswSessionIterator_assume_new(Unwrap(session), st, lib))

\* The iterator goes out of scope while its consumer is not inside next: the
\* session it still owns, if any, is dropped, and so is the receiver with the
\* events that wait in the channel.
IterDrop ==
  /\ IsSome(iter)
  /\ pc = "idle"
  /\ LET slot == Unwrap(iter).session
         cs == IF IsSome(slot) THEN FswSession_drop(Unwrap(slot), lib) ELSE << >>
     IN  /\ iter' = None
         /\ op' = Op("drop", OkRes)
         /\ arg' = << >>
         /\ calls' = cs
         /\ lib' = LibAfter(lib, cs)
         /\ life' = IF IsSome(slot) THEN "dropped" ELSE life
         /\ destroys' = destroys + Destroys(cs)
         /\ context' = CallbackAfter(Closures(context, closures, replaced), cs, "iter").context
         /\ chan' = << >>
         /\ UNCHANGED <<builder, session, origin, handle, closures, replaced>>
         /\ UNCHANGED <<thread, tsession, pc, cb, delivered, yielded, threads, starts>>

(***************************************************************************)
(* The running iterator: next on the consumer's side, the spawned thread,  *)
(* and the library calling the closure of adapt_session back.              *)
(***************************************************************************)
\* Iterator::next up to the point where it waits in rx.recv(): the first
\* call moves the session into a new thread.
IterNextCall ==
  /\ IsSome(iter)
  /\ pc = "idle"
  /\ LET r == FswSessionIterator_next(Unwrap(iter))
     IN  /\ iter' = Some(r.iter)
         /\ thread' = IF IsSome(r.spawn) THEN "spawned" ELSE thread
         /\ tsession' = IF IsSome(r.spawn) THEN r.spawn ELSE tsession
         /\ threads' = threads + Len(r.spawn)
  /\ pc' = "recv"
  /\ op' = Op("next", Blocked)
  /\ arg' = << >>
  /\ calls' = << >>
  /\ UNCHANGED <<builder, session, lib, life, origin, handle, destroys, cvars>>
  /\ UNCHANGED <<chan, cb, delivered, yielded, starts>>

\* rx.recv() returns and next returns `.ok()` of it.
IterNextReturn ==
  /\ IsSome(iter)
  /\ pc = "recv"
  /\ LET r == Receiver_recv(chan)
     IN  /\ r.tag # "Blocked"
         /\ op' = Op("next", IF r.tag = "Ok" THEN Item ELSE NoItem)
         /\ yielded' = yielded \o r.item
         /\ chan' = IF r.tag = "Ok" THEN Tail(chan) ELSE chan
  /\ pc' = "idle"
  /\ arg' = << >>
  /\ calls' = << >>
  /\ UNCHANGED <<builder, session, iter, lib, life, origin, handle, destroys, cvars>>
  /\ UNCHANGED <<thread, tsession, cb, delivered, threads, starts>>

\* The thread's session goes out of scope with the foreign calls cs made in
\* the step: at the end of the closure, or when a panic unwinds it.  arg
\* keeps the session the thread held.
ThreadOver(name, how, res, cs) ==
  /\ thread' = how
  /\ op' = Op(name, res)
  /\ arg' = tsession
  /\ tsession' = None
  /\ calls' = cs
  /\ lib' = LibAfter(lib, cs)
  /\ life' = "dropped"
  /\ destroys' = destroys + Destroys(cs)
  /\ context' = CallbackAfter(Closures(context, closures, replaced), cs, "iter").context
  /\ cb' = << >>
  /\ UNCHANGED <<builder, session, iter, origin, handle, closures, replaced>>
  /\ UNCHANGED <<pc, chan, delivered, yielded, threads>>

\* The thread body `session.start_monitor().unwrap()` up to the point where
\* fsw_start_monitor blocks.  A start_monitor that returns at once (refused
\* by its own check, or by the library for a handle it does not know)
\* returns an error, which unwrap turns into a panic.
ThreadStartMonitor ==
  /\ thread = "spawned"
  /\ LET s == Unwrap(tsession)
         out == FswSession_start_monitor(s, FSW_OK, lib)
     IN  IF unwrap_panics(out.res)
         THEN /\ ThreadOver("thread", "panicked", out.res, out.calls \o FswSession_drop(s, lib))
              /\ starts' = starts + Len(out.calls)
         ELSE /\ thread' = "monitoring"
              /\ starts' = starts + Len(out.calls)
              /\ op' = Op("thread", Blocked)
              /\ arg' = << >>
              /\ calls' = << >>
              /\ UNCHANGED <<builder, session, iter, lib, life, origin, handle, destroys>>
              /\ UNCHANGED <<cvars, tsession, pc, chan, cb, delivered, yielded, threads>>

\* fsw_start_monitor returns with the status the library chose, no callback
\* being in progress: the thread ends, or panics in unwrap.
MonitorReturn ==
  /\ thread = "monitoring"
  /\ cb = << >>
  /\ \E st \in Choices :
       LET s == Unwrap(tsession)
           out == FswSession_start_monitor(s, st, lib)
       IN  /\ ThreadOver("thread", IF unwrap_panics(out.res) THEN "panicked" ELSE "ended",
                         out.res, out.calls \o FswSession_drop(s, lib))
           /\ UNCHANGED starts

\* The library, monitoring, calls callback_wrapper with a batch of events and
\* the context of the iterator's closure, which begins to forward them.  (A
\* batch handed to a closure of the user changes nothing here.)
Deliver ==
  /\ thread = "monitoring"
  /\ cb = << >>
  /\ context = "iter"
  /\ \E events \in SeqsUpTo(CEvents, MaxBatch) \ { << >> } :
       /\ Len(delivered) + Len(events) <= MaxEvents
       /\ cb' = callback_wrapper(events)
       /\ delivered' = delivered \o events
  /\ op' = Op("callback_wrapper", OkRes)
  /\ arg' = << >>
  /\ calls' = << >>
  /\ UNCHANGED <<builder, session, iter, lib, life, origin, handle, destroys, cvars>>
  /\ UNCHANGED <<thread, tsession, pc, chan, yielded, threads, starts>>

\* One round of `for event in events { tx.send(event).unwrap(); }`.  With
\* the receiver gone send returns an error and unwrap panics inside the
\* extern fn the library called: the panic either ends the process, no
\* destructor being run, or unwinds the library's frames and the thread,
\* dropping the session.
CallbackSend ==
  /\ cb # << >>
  /\ IF IsSome(iter)
     THEN /\ chan' = Sender_send(chan, Head(cb))
          /\ cb' = Tail(cb)
          /\ op' = Op("callback_wrapper", OkRes)
          /\ arg' = << >>
          /\ calls' = << >>
          /\ UNCHANGED <<builder, session, iter, lib, life, origin, handle, destroys>>
          /\ UNCHANGED <<cvars, thread, tsession, pc, delivered, yielded, threads, starts>>
     ELSE \E unwinds \in BOOLEAN :
            IF unwinds
            THEN /\ ThreadOver("callback_wrapper", "panicked", Panic, FswSession_drop(Unwrap(tsession), lib))
                 /\ UNCHANGED starts
            ELSE /\ thread' = "aborted"
                 /\ tsession' = None
                 /\ cb' = << >>
                 /\ op' = Op("callback_wrapper", Panic)
                 /\ arg' = << >>
                 /\ calls' = << >>
                 /\ UNCHANGED <<builder, session, iter, lib, life, origin, handle, destroys>>
                 /\ UNCHANGED <<cvars, pc, chan, delivered, yielded, threads, starts>>

Next ==
  \/ BuilderEmpty \/ BuilderNew
  \/ BuilderAddPath \/ BuilderMonitor \/ BuilderProperty \/ BuilderOverflow
  \/ BuilderLatency \/ BuilderRecursive \/ BuilderDirectoryOnly
  \/ BuilderFollowSymlinks \/ BuilderAddEventFilter \/ BuilderAddFilter
  \/ SessionNew \/ Build \/ BuildCallback
  \/ AddPath \/ AddProperty \/ SetAllowOverflow \/ SetLatency \/ SetRecursive
  \/ SetDirectoryOnly \/ SetFollowSymlinks \/ AddEventTypeFilter \/ AddFilter
  \/ SetCallback \/ StartMonitor \/ DestroySession \/ DropSession
  \/ FfiDestroySession
  \/ IterNew \/ IntoIter \/ IterDrop

Spec == Init /\ [][Next]_vars

(***************************************************************************)
(* The iterator over a session made by FswSession::new.  The consumer's    *)
(* next and the closure's loop are not held up for ever.                   *)
(***************************************************************************)
NextIter ==
  \/ SessionNew \/ AddPath \/ SetCallback \/ DestroySession \/ DropSession
  \/ IterNew \/ IntoIter \/ IterDrop
  \/ IterNextCall \/ IterNextReturn
  \/ ThreadStartMonitor \/ MonitorReturn \/ Deliver \/ CallbackSend

IterSpec ==
  /\ Init
  /\ [][NextIter]_vars
  /\ WF_vars(IterNextCall) /\ WF_vars(IterNextReturn) /\ WF_vars(CallbackSend)

(***************************************************************************)
(* The status conversion on its own.  arg holds the value and the status   *)
(* code given to map_result; the code is any c_int of StatusCodes.         *)
(***************************************************************************)
StatusCodes == ((-2)..MaxStatus) \cup { c_int_MIN, c_int_MAX }
\* The values map_result carries: () in every caller of lib.rs.
Rets == { "()" }

StatusInit ==
  /\ \E ret \in Rets, code \in StatusCodes : arg = <<ret, code>>
  /\ op = Op("init", OkRes)
  /\ builder = None /\ session = None /\ iter = None
  /\ lib = {} /\ calls = << >>
  /\ life = "none" /\ origin = "none" /\ handle = None /\ destroys = 0
  /\ context = "none" /\ closures = 0 /\ replaced = 0
  /\ thread = "none" /\ tsession = None /\ pc = "idle"
  /\ chan = << >> /\ cb = << >> /\ delivered = << >> /\ yielded = << >>
  /\ threads = 0 /\ starts = 0

\* FswStatus::from(code)
StatusFrom ==
  /\ op' = Op("FswStatus::from", FromFsw(FswStatus_from(arg[2])))
  /\ UNCHANGED <<builder, session, iter, lib, arg, calls, life, origin, handle, destroys>>
  /\ UNCHANGED <<cvars, ivars>>

\* FswSession::map_result(ret, code)
MapResult ==
  /\ LET out == FswSession_map_result(arg[1], arg[2])
     IN  op' = [name |-> "map_result", res |-> out.res, ret |-> out.ret]
  /\ UNCHANGED <<builder, session, iter, lib, arg, calls, life, origin, handle, destroys>>
  /\ UNCHANGED <<cvars, ivars>>

NextStatus == StatusFrom \/ MapResult

StatusSpec == StatusInit /\ [][NextStatus]_vars

(***************************************************************************)
(* What the properties below read off a state.                             *)
(***************************************************************************)
\* The session wherever it is held: by the caller or inside the iterator.
HeldSession(sess, it) ==
  IF IsSome(sess) THEN sess ELSE IF IsSome(it) THEN Unwrap(it).session ELSE None
PathAddedIn(sess, it) ==
  IsSome(HeldSession(sess, it)) /\ Unwrap(HeldSession(sess, it)).path_added
CallbackSetIn(sess, it) ==
  IsSome(HeldSession(sess, it)) /\ Unwrap(HeldSession(sess, it)).callback_set

\* Some call among cs is a successful call of fn.
Succeeded(cs, fn) == \E i \in 1..Len(cs) : cs[i].fn = fn /\ cs[i].ret = FSW_OK

\* The last operation was build or build_callback; its builder is arg[1].
WasBuild == op.name \in { "build", "build_callback" }

\* The error an operation reports for a failed call.
ErrorOf(c) ==
  IF c.fn = "fsw_init_session" THEN FromFsw("UnknownError")
  ELSE FromFsw(FswStatus_from(c.ret))

(***************************************************************************)
(* C1.  start_monitor on a session whose callback_set or path_added is     *)
(* false returns MissingRequiredParameters and makes no foreign call, in   *)
(* particular no fsw_start_monitor, whatever calls came before.            *)
(***************************************************************************)
C1_StartNeedsCallbackAndPath ==
  (op.name = "start_monitor"
     /\ (~Unwrap(session).callback_set \/ ~Unwrap(session).path_added))
  => (op.res = MissingRequiredParameters /\ calls = << >>)

\* start_monitor was refused on a session that has a path but no callback.
C1_Witness ==
  /\ op.name = "start_monitor"
  /\ Unwrap(session).path_added
  /\ ~Unwrap(session).callback_set
  /\ op.res = MissingRequiredParameters

(***************************************************************************)
(* C2.  path_added turns true only in a step that made a successful        *)
(* fsw_add_path call, callback_set only in a step that made a successful   *)
(* fsw_set_callback call; an add_path or set_callback that returns an      *)
(* error leaves the session, and so both flags, as it was.                 *)
(***************************************************************************)
C2_FlagsFlipOnlyOnSuccess ==
  [][ /\ (~PathAddedIn(session, iter) /\ PathAddedIn(session', iter'))
           => Succeeded(calls', "fsw_add_path")
      /\ (~CallbackSetIn(session, iter) /\ CallbackSetIn(session', iter'))
           => Succeeded(calls', "fsw_set_callback")
      /\ (op'.name \in {"add_path", "set_callback"} /\ ~IsOk(op'.res))
           => session' = session ]_vars

\* add_path failed with SessionUnknown and path_added is still false.
C2_Witness ==
  /\ op.name = "add_path"
  /\ op.res = FromFsw("SessionUnknown")
  /\ ~Unwrap(session).path_added

(***************************************************************************)
(* C3.  Over the life of a session fsw_destroy_session is called on its    *)
(* handle exactly once: never twice, and once when it has been dropped.    *)
(***************************************************************************)
C3_DestroyedExactlyOnce ==
  /\ destroys <= 1
  /\ life = "dropped" => destroys = 1

(***************************************************************************)
(* C4.  A session the caller holds has a handle other than                 *)
(* FSW_INVALID_HANDLE; once it went out of scope the library no longer     *)
(* knows the handle, and a later fsw_destroy_session on it does not return *)
(* FSW_OK.                                                                 *)
(***************************************************************************)
C4_DroppedHandleIsDestroyed ==
  /\ IsSome(session) => Unwrap(session).handle # FSW_INVALID_HANDLE
  /\ life = "dropped" => Unwrap(handle) \notin lib
  /\ op.name = "ffi::fsw_destroy_session" => calls[1].ret # FSW_OK

\* The library refused to destroy the handle of a dropped session.
C4_Witness ==
  /\ op.name = "ffi::fsw_destroy_session"
  /\ life = "dropped"
  /\ calls[1].h = Unwrap(handle)
  /\ calls[1].ret = FSW_ERR_SESSION_UNKNOWN

(***************************************************************************)
(* C5.  A step that leaves a builder in the caller's hands (a constructor  *)
(* or a fluent setter) makes no foreign call and leaves the library's      *)
(* sessions as they were.                                                  *)
(***************************************************************************)
C5_BuilderMakesNoForeignCall ==
  [][ IsSome(builder') => (calls' = << >> /\ lib' = lib /\ session' = None) ]_vars

\* A builder that holds a path and two options, nothing handed to the library.
C5_Witness ==
  /\ IsSome(builder)
  /\ BuilderSize(Unwrap(builder)) = MaxBuilderSize
  /\ Len(Unwrap(builder).paths) >= 1
  /\ calls = << >>

(***************************************************************************)
(* What the properties of build read off its calls.                        *)
(***************************************************************************)
\* The place of each foreign function in the order build is to follow.
Rank(fn) ==
  CASE fn = "fsw_init_session" -> 0
    [] fn = "fsw_add_path" -> 1
    [] fn = "fsw_add_property" -> 2
    [] fn = "fsw_set_allow_overflow" -> 3
    [] fn = "fsw_set_latency" -> 4
    [] fn = "fsw_set_recursive" -> 5
    [] fn = "fsw_set_directory_only" -> 6
    [] fn = "fsw_set_follow_symlinks" -> 7
    [] fn = "fsw_add_event_type_filter" -> 8
    [] fn = "fsw_add_filter" -> 9
    [] fn = "fsw_set_callback" -> 10
    [] fn = "fsw_destroy_session" -> 11

\* The arguments of the calls of fn among cs, in the order of the calls.
RECURSIVE ArgsOf(_, _)
ArgsOf(cs, fn) ==
  IF cs = << >> THEN << >>
  ELSE (IF Head(cs).fn = fn THEN <<Head(cs).arg>> ELSE << >>) \o ArgsOf(Tail(cs), fn)

IsPrefix(s, t) == Len(s) <= Len(t) /\ \A i \in 1..Len(s) : s[i] = t[i]

\* The calls of fn carry the elements of items, one call each, in order,
\* from the first on (all of them when the build went that far).
InOrder(cs, fn, items) ==
  IsPrefix(ArgsOf(cs, fn), [ i \in 1..Len(items) |-> <<items[i]>> ])

\* An option is passed by at most one call of fn, and only when it is set.
OnlyIfSet(cs, fn, option) == IsPrefix(ArgsOf(cs, fn), [ i \in 1..Len(option) |-> option ])

\* How many calls of fn the builder b asks for.
Wanted(b, fn) ==
  CASE fn = "fsw_add_path" -> Len(b.paths)
    [] fn = "fsw_add_property" -> Cardinality(DOMAIN b.properties)
    [] fn = "fsw_set_allow_overflow" -> Len(b.overflow)
    [] fn = "fsw_set_latency" -> Len(b.latency)
    [] fn = "fsw_set_recursive" -> Len(b.recursive)
    [] fn = "fsw_set_directory_only" -> Len(b.directory_only)
    [] fn = "fsw_set_follow_symlinks" -> Len(b.follow_symlinks)
    [] fn = "fsw_add_event_type_filter" -> Len(b.event_type_filters)
    [] fn = "fsw_add_filter" -> Len(b.filters)

ConfigFns ==
  { "fsw_add_path", "fsw_add_property", "fsw_set_allow_overflow", "fsw_set_latency",
    "fsw_set_recursive", "fsw_set_directory_only", "fsw_set_follow_symlinks",
    "fsw_add_event_type_filter", "fsw_add_filter" }

(***************************************************************************)
(* C6.  Whatever the order of the setters, the calls of build are:         *)
(* fsw_init_session, then a call per path (as text) in insertion order,    *)
(* then a call per property, then allow_overflow, latency, recursive,      *)
(* directory_only, follow_symlinks (each only if set, with its value),     *)
(* then a call per event filter in insertion order, then a call per path   *)
(* filter in insertion order.  A kind of call is begun only when every     *)
(* earlier kind is complete, and a build that succeeds has made them all.  *)
(***************************************************************************)
C6_BuildOrder ==
  WasBuild =>
    LET b == arg[1]
        props == ArgsOf(calls, "fsw_add_property")
    IN  /\ calls[1].fn = "fsw_init_session"
        /\ calls[1].arg = <<b.monitor_type>>
        /\ \A i, j \in 1..Len(calls) : i < j => Rank(calls[i].fn) <= Rank(calls[j].fn)
        /\ \A i \in 2..Len(calls) : calls[i].fn # "fsw_init_session"
        /\ InOrder(calls, "fsw_add_path",
                   [ i \in 1..Len(b.paths) |-> to_string_lossy(b.paths[i]) ])
        /\ \A i \in 1..Len(props) :
             /\ props[i][1] \in DOMAIN b.properties
             /\ props[i][2] = b.properties[props[i][1]]
             /\ \A j \in 1..Len(props) : i # j => props[i][1] # props[j][1]
        /\ OnlyIfSet(calls, "fsw_set_allow_overflow", b.overflow)
        /\ OnlyIfSet(calls, "fsw_set_latency", b.latency)
        /\ OnlyIfSet(calls, "fsw_set_recursive", b.recursive)
        /\ OnlyIfSet(calls, "fsw_set_directory_only", b.directory_only)
        /\ OnlyIfSet(calls, "fsw_set_follow_symlinks", b.follow_symlinks)
        /\ InOrder(calls, "fsw_add_event_type_filter", b.event_type_filters)
        /\ InOrder(calls, "fsw_add_filter", b.filters)
        /\ \A f, g \in ConfigFns :
             (Rank(g) < Rank(f) /\ ArgsOf(calls, f) # << >>)
               => Len(ArgsOf(calls, g)) = Wanted(b, g)
        /\ IsOk(op.res) => \A f \in ConfigFns : Len(ArgsOf(calls, f)) = Wanted(b, f)

\* A build that succeeded with two paths added in the order they were given
\* (0xFF, as U+FFFD, before "./"), or with a path filter after an event filter.
C6_Witness ==
  /\ WasBuild
  /\ IsOk(op.res)
  /\ Len(calls) = 1 + MaxBuilderSize
  /\ \/ ArgsOf(calls, "fsw_add_path") = << << <<239, 191, 189>> >>, << <<46, 47>> >> >>
     \/ /\ ArgsOf(calls, "fsw_add_event_type_filter") # << >>
        /\ calls[Len(calls)].fn = "fsw_add_filter"

(***************************************************************************)
(* C7, as claimed.  When a foreign call of build fails, build returns that *)
(* call's error and the failing call is the last foreign call made.        *)
(***************************************************************************)
C7_NoCallAfterFailure ==
  op.name = "build" =>
    \A i \in 1..Len(calls) :
      CallFailed(calls[i]) => (op.res = ErrorOf(calls[i]) /\ i = Len(calls))

(***************************************************************************)
(* C7, amended.  When a foreign call of build (or the set_callback of      *)
(* build_callback) fails, the operation returns that call's error, and the *)
(* only foreign call after the failing one is the fsw_destroy_session made *)
(* by dropping the session that was being configured; when it is           *)
(* fsw_init_session that failed there is no session and no further call.   *)
(* Whenever build returns an error after the session was made, that one    *)
(* destroy is the last call.                                               *)
(***************************************************************************)
C7_OnlyDropAfterFailure ==
  WasBuild =>
    /\ \A i \in 1..Len(calls) :
         (CallFailed(calls[i]) /\ ~calls[i].implicit) =>
           /\ op.res = ErrorOf(calls[i])
           /\ IF calls[i].fn = "fsw_init_session"
              THEN i = Len(calls)
              ELSE /\ Len(calls) = i + 1
                   /\ calls[i + 1].fn = "fsw_destroy_session"
                   /\ calls[i + 1].implicit
                   /\ calls[i + 1].h = calls[1].ret
    /\ \A i \in 1..Len(calls) : calls[i].implicit => (i = Len(calls) /\ ~IsOk(op.res))
    /\ (~IsOk(op.res) /\ calls[1].ret # FSW_INVALID_HANDLE)
         => (calls[Len(calls)].implicit /\ session = None)

\* build failed at a configuration call that came after a successful one,
\* and the session was dropped.
C7_Witness ==
  /\ op.name = "build"
  /\ Len(calls) = 4
  /\ ~CallFailed(calls[2])
  /\ CallFailed(calls[3])
  /\ op.res = ErrorOf(calls[3])
  /\ calls[4].implicit

(***************************************************************************)
(* C8, as claimed.  A build from a builder that holds a path with an       *)
(* embedded NUL fails with NulError before any foreign call.               *)
(***************************************************************************)
HasNul(text) == \E i \in 1..Len(text) : text[i] = 0
HasNulPath(b) == \E i \in 1..Len(b.paths) : HasNul(b.paths[i])
FirstNulPath(b) == CHOOSE i \in 1..Len(b.paths) :
                     HasNul(b.paths[i]) /\ \A j \in 1..(i - 1) : ~HasNul(b.paths[j])

C8_NulPathFailsBeforeAnyCall ==
  (WasBuild /\ HasNulPath(arg[1])) => (op.res = NulError /\ calls = << >>)

(***************************************************************************)
(* C8, amended.  A build from a builder that holds a path with an embedded *)
(* NUL never returns a session.  The library is never handed that path nor *)
(* anything that comes after it in build's order: the foreign calls are    *)
(* fsw_init_session, fsw_add_path for the paths before it, and the         *)
(* fsw_destroy_session of the dropped session.  The error is NulError      *)
(* exactly when fsw_init_session and those fsw_add_path calls succeeded,   *)
(* and otherwise the error of the call that failed.                        *)
(***************************************************************************)
C8_NulPathNeverReachesLibrary ==
  (WasBuild /\ HasNulPath(arg[1])) =>
    LET b == arg[1]
        added == ArgsOf(calls, "fsw_add_path")
    IN  /\ ~IsOk(op.res)
        /\ session = None
        /\ calls # << >>
        /\ \A i \in 1..Len(calls) :
             calls[i].fn \in {"fsw_init_session", "fsw_add_path", "fsw_destroy_session"}
        /\ Len(added) < FirstNulPath(b)
        /\ \A i \in 1..Len(added) :
             added[i] = <<to_string_lossy(b.paths[i])>> /\ ~HasNul(added[i][1])
        /\ (op.res = NulError) <=> (\A i \in 1..Len(calls) : ~CallFailed(calls[i]))
        /\ (op.res = NulError) =>
             (Len(added) = FirstNulPath(b) - 1 /\ Len(calls) = Len(added) + 2)

\* build returned NulError for a builder whose second path holds the NUL:
\* the session was made, the first path added, and the session destroyed.
C8_Witness ==
  /\ op.name = "build"
  /\ op.res = NulError
  /\ Len(arg[1].paths) = 2
  /\ Len(calls) = 3
  /\ calls[2].fn = "fsw_add_path"
  /\ calls[3].fn = "fsw_destroy_session"

(***************************************************************************)
(* C9.  A session that build_callback returned for a builder holding at    *)
(* least one path has callback_set and path_added true, and start_monitor  *)
(* on it does not return MissingRequiredParameters: it makes the           *)
(* fsw_start_monitor call.                                                 *)
(***************************************************************************)
C9_BuildCallbackCanStart ==
  /\ (op.name = "build_callback" /\ IsOk(op.res) /\ Len(arg[1].paths) >= 1)
       => (Unwrap(session).callback_set /\ Unwrap(session).path_added)
  /\ (op.name = "start_monitor" /\ origin = "build_callback_paths")
       => /\ op.res # MissingRequiredParameters
          /\ Len(calls) = 1
          /\ calls[1].fn = "fsw_start_monitor"
          /\ op.res = map_result(calls[1].ret)

\* start_monitor on such a session reached the library and returned Ok.
C9_Witness ==
  /\ op.name = "start_monitor"
  /\ origin = "build_callback_paths"
  /\ calls # << >>
  /\ calls[1].fn = "fsw_start_monitor"
  /\ IsOk(op.res)

(***************************************************************************)
(* C10.  Every foreign call that fails, other than the destroy made by     *)
(* dropping a session, is reported: the operation that made it returns     *)
(* that call's error.                                                      *)
(***************************************************************************)
C10_EveryFailureReported ==
  \A i \in 1..Len(calls) :
    (CallFailed(calls[i]) /\ ~calls[i].implicit) => op.res = ErrorOf(calls[i])

(***************************************************************************)
(* What the properties of the iterator read off a state.                   *)
(***************************************************************************)
\* The iterator is held and next has not been called on it yet.
NotPulled == IsSome(iter) /\ pc = "idle" /\ yielded = << >>

\* The thread of the iterator has finished, one way or the other.
ThreadIsOver == thread \in { "ended", "panicked" }

\* The owners of the session: the caller, the iterator's slot, the thread.
Owners ==
  Len(session) + (IF IsSome(iter) THEN Len(Unwrap(iter).session) ELSE 0) + Len(tsession)

\* The closures that were boxed and are not the context of a live session.
Orphaned == closures - (IF context # "none" THEN 1 ELSE 0)

(***************************************************************************)
(* C11.  The events next has returned are a prefix of the events the       *)
(* library passed to the closure, batch after batch, each converted by     *)
(* callback_wrapper; while the iterator is held no event is lost,          *)
(* duplicated or moved: the events returned, then those in the channel,    *)
(* then those the closure has still to send, are the events delivered.     *)
(***************************************************************************)
C11_YieldedInDeliveryOrder ==
  /\ IsPrefix(yielded, callback_wrapper(delivered))
  /\ IsSome(iter) => yielded \o chan \o cb = callback_wrapper(delivered)

\* Two different events were returned one by one, in the order delivered.
C11_Witness ==
  /\ Len(yielded) >= 2
  /\ yielded[1] # yielded[2]
  /\ yielded[1] = callback_wrapper(delivered)[1]

(***************************************************************************)
(* C12.  When the thread of a running iterator has ended and every         *)
(* delivered event was consumed, the channel is closed: rx.recv() of the   *)
(* waiting next returns an error, so that next returns None.               *)
(***************************************************************************)
C12_ChannelClosedWhenThreadOver ==
  (IsSome(iter) /\ pc = "recv" /\ ThreadIsOver /\ chan = << >>)
    => Receiver_recv(chan).tag = "Err"

(***************************************************************************)
(* C14.  Making an iterator calls neither fsw_start_monitor nor spawns a   *)
(* thread; until the first next there is no thread; from the first next on *)
(* exactly one thread was spawned, and fsw_start_monitor was called at     *)
(* most once, however many times next is called.                           *)
(***************************************************************************)
C14_StartedOnceOnFirstNext ==
  /\ op.name \in { "FswSessionIterator::new", "into_iter" }
       => (ArgsOf(calls, "fsw_start_monitor") = << >> /\ threads = 0 /\ starts = 0)
  /\ NotPulled => (thread = "none" /\ threads = 0 /\ starts = 0)
  /\ (IsSome(iter) /\ ~NotPulled) => threads = 1
  /\ threads <= 1
  /\ starts <= 1
  /\ thread = "monitoring" => starts = 1

\* A third next waits after two events were returned: one thread, one start.
C14_Witness ==
  /\ IsSome(iter)
  /\ pc = "recv"
  /\ Len(yielded) >= 2
  /\ threads = 1
  /\ starts = 1

(***************************************************************************)
(* C15.  Every event the library delivers to the iterator's closure is     *)
(* eventually returned by next, unless the consumer gave the iterator up:  *)
(* for every k, once k events were delivered, k events are returned.       *)
(***************************************************************************)
C15_DeliveredEventuallyYielded ==
  \A k \in 1..MaxEvents :
    (Len(delivered) >= k) ~> (Len(yielded) >= k \/ iter = None)

\* next returned the Created event of the file "f" with its path.
C15_Witness ==
  /\ op = Op("next", Item)
  /\ yielded[Len(yielded)].path = <<102>>
  /\ yielded[Len(yielded)].flags = <<"Created">>
  /\ Len(yielded) = Len(delivered)

(***************************************************************************)
(* C16.  When the session an iterator wraps has no path added, the thread  *)
(* of the first next gets MissingRequiredParameters from start_monitor,    *)
(* without a fsw_start_monitor call, and panics in unwrap.                 *)
(***************************************************************************)
C16_NoPathPanics ==
  (op.name = "thread" /\ op.res # Blocked /\ ~arg[1].path_added)
    => /\ thread = "panicked"
       /\ op.res = MissingRequiredParameters
       /\ ArgsOf(calls, "fsw_start_monitor") = << >>
       /\ starts = 0
       /\ threads = 1

\* The thread panicked for a session that had its callback and no path.
C16_Witness ==
  /\ op = Op("thread", MissingRequiredParameters)
  /\ thread = "panicked"
  /\ arg[1].callback_set
  /\ ~arg[1].path_added
  /\ pc = "recv"

(***************************************************************************)
(* C17.  After the consumer dropped the iterator with the monitor running, *)
(* the closure handles every batch the library delivers without a panic.   *)
(***************************************************************************)
C17_ClosureNeverPanics ==
  op.name = "callback_wrapper" => op.res = OkRes

(***************************************************************************)
(* C18.  While a session is held (by the caller or inside an iterator), a  *)
(* step never turns path_added or callback_set from true to false.         *)
(***************************************************************************)
C18_FlagsMonotonic ==
  [][ (IsSome(HeldSession(session, iter)) /\ IsSome(HeldSession(session', iter')))
        => /\ PathAddedIn(session, iter) => PathAddedIn(session', iter')
           /\ CallbackSetIn(session, iter) => CallbackSetIn(session', iter') ]_vars

\* add_path failed on a session that was destroyed by hand, and both flags
\* are still true.
C18_Witness ==
  /\ op.name = "add_path"
  /\ op.res = FromFsw("SessionUnknown")
  /\ destroys >= 1
  /\ Unwrap(session).path_added
  /\ Unwrap(session).callback_set

(***************************************************************************)
(* C19.  The session of an iterator has one owner at most: the caller, the *)
(* iterator's slot or the thread.  In an iterator `started` is true        *)
(* exactly when its slot is empty; before the first next it holds the      *)
(* session and there is no thread; the thread owns the session as long as  *)
(* it is spawned or monitoring, and then the caller holds none.            *)
(***************************************************************************)
C19_SessionHasOneOwner ==
  /\ Owners <= 1
  /\ IsSome(iter) => (Unwrap(iter).started <=> Unwrap(iter).session = None)
  /\ NotPulled => (IsSome(Unwrap(iter).session) /\ thread = "none")
  /\ (IsSome(iter) /\ ~NotPulled) => Unwrap(iter).started
  /\ thread \in { "spawned", "monitoring" } <=> IsSome(tsession)
  /\ thread \in { "spawned", "monitoring" } => session = None

\* The monitor runs on the thread, which owns the session; the iterator is
\* started and its slot is empty.
C19_Witness ==
  /\ thread = "monitoring"
  /\ IsSome(tsession)
  /\ IsSome(iter)
  /\ Unwrap(iter).started
  /\ Unwrap(iter).session = None
  /\ delivered # << >>

(***************************************************************************)
(* C20.  The closures that are orphaned are as many as the successful      *)
(* set_callback calls that replaced an installed closure: a set_callback   *)
(* that fails orphans nothing.                                             *)
(***************************************************************************)
C20_OrphansAreReplacements ==
  Orphaned = replaced

(***************************************************************************)
(* C21.  add_path with a path that holds the byte 0 returns NulError,      *)
(* makes no foreign call (no fsw_add_path) and leaves the session, so      *)
(* path_added, as it was; an add_path whose fsw_add_path returned FSW_OK   *)
(* returns Ok and leaves path_added true.                                  *)
(***************************************************************************)
C21_NulPathRefusedByAddPath ==
  [][ op'.name = "add_path" =>
        /\ HasNul(arg'[1]) =>
             (op'.res = NulError /\ calls' = << >> /\ session' = session)
        /\ Succeeded(calls', "fsw_add_path") =>
             (IsOk(op'.res) /\ Unwrap(session').path_added) ]_vars

\* add_path refused a path with the byte 0 on a live session that already
\* had a path: no call was made and path_added is still true.
C21_Witness ==
  /\ op.name = "add_path"
  /\ HasNul(arg[1])
  /\ op.res = NulError
  /\ calls = << >>
  /\ Unwrap(session).handle \in lib
  /\ Unwrap(session).path_added

(***************************************************************************)
(* C22.  FswSession::new returns the error FromFsw(UnknownError) exactly   *)
(* when fsw_init_session returned FSW_INVALID_HANDLE, and then no session; *)
(* otherwise it returns Ok with a session that holds the handle the        *)
(* library returned, callback_set and path_added both false.  No session,  *)
(* however made, holds FSW_INVALID_HANDLE.                                 *)
(***************************************************************************)
C22_NewFailsOnInvalidHandle ==
  /\ op.name = "FswSession::new" =>
       /\ Len(calls) = 1 /\ calls[1].fn = "fsw_init_session"
       /\ (op.res = FromFsw("UnknownError")) <=> (calls[1].ret = FSW_INVALID_HANDLE)
       /\ (~IsOk(op.res)) <=> (calls[1].ret = FSW_INVALID_HANDLE)
       /\ IsOk(op.res) <=> IsSome(session)
       /\ IsSome(session) => session = Some(FswSession(calls[1].ret, FALSE, FALSE))
  /\ IsSome(HeldSession(session, iter)) =>
       Unwrap(HeldSession(session, iter)).handle # FSW_INVALID_HANDLE

\* FswSession::new failed because the library returned the invalid handle.
C22_Witness ==
  /\ op.name = "FswSession::new"
  /\ calls[1].ret = FSW_INVALID_HANDLE
  /\ op.res = FromFsw("UnknownError")
  /\ session = None

(***************************************************************************)
(* C23.  FswStatus::from gives every status code one kind of FswStatus:    *)
(* two different codes of ffi.rs never the same kind, FSW_OK and no other  *)
(* code Ok, and every code ffi.rs does not define UnknownError.            *)
(* map_result(ret, code) is Ok(ret) exactly when the kind of the code is   *)
(* Ok, and otherwise the error FromFsw of that kind, with no value.        *)
(***************************************************************************)
C23_ClassificationTotalAndMapResultAgrees ==
  /\ op.name = "FswStatus::from" =>
       /\ op.res.status \in FswStatusKinds
       /\ arg[2] \notin DefinedStatuses => op.res.status = "UnknownError"
       /\ arg[2] \in DefinedStatuses =>
            \A c \in DefinedStatuses \ {arg[2]} : FswStatus_from(c) # op.res.status
       /\ (op.res.status = "Ok") <=> (arg[2] = FSW_OK)
       /\ arg[2] = FSW_ERR_UNKNOWN_ERROR => op.res.status = "UnknownError"
  /\ op.name = "map_result" =>
       /\ IsOk(op.res) <=> (FswStatus_from(arg[2]) = "Ok")
       /\ IsOk(op.res) => op.ret = Some(arg[1])
       /\ ~IsOk(op.res) =>
            (op.res = FromFsw(FswStatus_from(arg[2])) /\ op.ret = None)

\* map_result was given a code with two bits set, which ffi.rs does not
\* define, and returned the error UnknownError.
C23_Witness ==
  /\ op.name = "map_result"
  /\ arg[2] = FSW_ERR_SESSION_UNKNOWN + FSW_ERR_MEMORY
  /\ op.res = FromFsw("UnknownError")
  /\ op.ret = None

(***************************************************************************)
(* C24.  Once fsw_destroy_session has been called on the handle of a       *)
(* session that was still held (an explicit destroy_session, which         *)
(* succeeds on a live handle), no later operation of the wrapper makes a   *)
(* foreign call with that handle: no add_path, set_callback, setter,       *)
(* start_monitor, and no second destroy, by destroy_session or by Drop.    *)
(* destroys - Destroys(calls) counts the destroys before the last          *)
(* operation; the test's own ffi::fsw_destroy_session is not the wrapper.  *)
(***************************************************************************)
C24_NoCallOnDestroyedHandle ==
  (/\ op.name # "ffi::fsw_destroy_session"
   /\ IsSome(handle)
   /\ destroys - Destroys(calls) >= 1)
  => \A i \in 1..Len(calls) : calls[i].h # Unwrap(handle)

=============================================================================
